---- MODULE Spec2Model ----
(***************************************************************************)
(* Model of the energy load allocation engine of reactive-hass:            *)
(*   - allocatePower  (src/energy/allocatePower.ts), modelled statement by *)
(*     statement so that the running remainingPower is visible;            *)
(*   - createLoadManager$ (src/energy/loadManager.ts) together with the    *)
(*     feedback of createEnergySystem$, modelled as one action per event   *)
(*     source of the decision stream;                                      *)
(*   - the energy system (src/energy/index.ts, src/energy/loads/           *)
(*     teslaCharging.ts, src/services/HomeWizardP1.ts): the enablement     *)
(*     switch, the charging load with its telemetry, reconciliation and    *)
(*     actuator commands, one other managed load and the meter poll;       *)
(*   - the rolling aggregate (src/helpers/operators/rollingAverage.ts)     *)
(*     with the aggregation functions of src/helpers/math/aggregations.ts. *)
(* A load id is the position of the load in the insertion order of the     *)
(* record handed to allocatePower (Object.entries order): id 1 was         *)
(* inserted first.                                                         *)
(***************************************************************************)
EXTENDS Integers, Sequences, FiniteSets, TLC

\* ------------------------------------------------------------------ bounds
MaxLoads == 2

\* Input values the specifications draw from.
LevelChoices == { <<>>, <<1000>>, <<1000, 2000>>, <<0, 1000, 2000>> }
ScoreChoices == {30, 80}
PowerChoices == {0, 1000, 2000}
BudgetChoices == {0 - 1000, 0, 1000, 2500}

\* Smaller input sets for the specification that repeats calls.
DetLevelChoices == { <<1000, 2000>> }
DetPowerChoices == {0, 1000}
DetBudgetChoices == {0, 2500}

\* Level sets of the specification that compares two calls.
PairLevelChoices == { <<1000>>, <<1000, 2000>> }

\* Level sets of the specification that calls allocatePower on inputs that
\* break the allocator's input invariant (a negative level).
InvalidLevelChoices == { <<0 - 500>>, <<0 - 500, 1000>>, <<1000>> }

\* Input values of the Manager specification.
MgrStateChoices ==
  { [eligible |-> TRUE,  levels |-> <<1000, 1500>>, score |-> 80],
    [eligible |-> TRUE,  levels |-> <<>>,           score |-> 30],
    [eligible |-> FALSE, levels |-> <<1000, 1500>>, score |-> 30] }
MgrPowerChoices == {0, 1000, 1500}
MgrBudgetChoices == {0 - 1000, 1000, 2500}

\* Inputs of the smoothing specification: values and gaps between them in
\* milliseconds, window sizes, trim percentages and weights.
MaxSeries == 4
ValueChoices == {0 - 300, 50, 2000}
GapChoices == {1, 2}
WindowSizeChoices == {1, 3}
TrimChoices == {0, 20, 40}
WeightChoices == { <<1>>, <<1, 2, 3>>, <<1, 2, 4>>, <<1, 0>> }

\* The energy system: the charging load (id 1) and one other managed load
\* (id 2); what the car's telemetry, the BLE sensor, the other load and the
\* smoothed meter reading may report.
TeslaId == 1
OtherId == 2
WattsPerAmp == 220
TelemetryChoices ==
  { [battery |-> 50, limit |-> 80, pluggedIn |-> TRUE],
    [battery |-> 80, limit |-> 80, pluggedIn |-> TRUE],
    [battery |-> 50, limit |-> 80, pluggedIn |-> FALSE] }
BlePowerChoices ==
  { [isActive |-> FALSE, power |-> 0],
    [isActive |-> TRUE, power |-> 1000],
    [isActive |-> TRUE, power |-> 2000] }
OtherPowerChoices == {0, 1000}
SysBudgetChoices == {0 - 1000, 1000, 3500}

\* A source that has not emitted yet, a null allocation, no pending emission.
None == << >>
Some(x) == << x >>

VARIABLES
  \* arguments of the running allocatePower call
  loads, loadCurrentPower, availablePower,
  \* locals of the running allocatePower call
  pc, eligible, idx, remainingPower, allocations,
  \* a completed earlier call kept for comparison: None or Some([input, result])
  saved,
  \* Manager: number of managed loads, latest value of each combined source
  numLoads, loadStates, loadsActualPower, latestAvailablePower, powerAllocation,
  \* Manager: what the last event did, and the allocation emitted by
  \* decision$ that createEnergySystem$ has not fed back yet
  outcome, decision,
  \* Manager: allocations computed in the running chain of feedbacks (0 when
  \* none is waiting to be fed back)
  computed,
  \* smoothing: every value pushed so far, the timestamped values kept by
  \* the scan, the time of the last push, the window size, the last aggregates
  series, window, clock, windowSize, smoothed,
  \* smoothing: the arrival time of every value pushed so far
  arrivals,
  \* energy system: last value of the enablement switch ("unset" before its
  \* first value), whether the inner observable of the switch is subscribed,
  \* whether an error reached the exported observable, whether the meter's
  \* polling stream is still active
  toggle, running, crashed, meterAlive,
  \* charging load: latest car telemetry, latest chargingState === "Charging",
  \* last value that passed powerState$, expectedState$, whether the debounce
  \* timer of reconcile$ is armed, the command of the last reconciliation
  \* step, whether a BLE read has failed, messages sent to the notification
  \* service
  telemetry, charging, powerState, expectedState, debouncing, command,
  sensorFailed, notifications,
  \* charging load: milliseconds since the last value entered the debounce of
  \* reconcile$, whether the target last changed while an actuator call was in
  \* flight, calls of getChargeState$ made by the last failed poll tick
  elapsed, raced, pollCalls,
  \* charging load: where the value last let through by powerState$ came
  \* from and the confidence it carries (None before the first value)
  published,
  \* charging load: whether the debounce of reconcile$ is armed by nothing
  \* but the last step's own write of expectedState$
  selfArmed,
  \* the other load: its latest observed power
  otherPower

allocVars == <<loads, loadCurrentPower, availablePower, pc, eligible, idx,
               remainingPower, allocations, saved>>
mgrVars == <<numLoads, loadStates, loadsActualPower, latestAvailablePower,
             powerAllocation, outcome, decision, computed>>
aggVars == <<series, window, clock, windowSize, smoothed, arrivals>>
sysVars == <<toggle, running, crashed, meterAlive, telemetry, charging,
             powerState, expectedState, debouncing, command, sensorFailed,
             notifications, otherPower, elapsed, raced, pollCalls,
             published, selfArmed>>
vars == <<loads, loadCurrentPower, availablePower, pc, eligible, idx,
          remainingPower, allocations, saved, numLoads, loadStates,
          loadsActualPower, latestAvailablePower, powerAllocation, outcome,
          decision, computed, sysVars, aggVars>>

\* ------------------------------------------------------------ data types
LoadState(E, L, S) ==
  [eligible |-> E, levels |-> L, score |-> S]

LoadStates(Ls, Ss) ==
  { LoadState(e, l, s) : e \in BOOLEAN, l \in Ls, s \in Ss }

EmptyAllocation == << >>

\* allocations[loadId] = v
SetAllocation(a, id, v) ==
  (id :> v) @@ a

\* a[id] === v, where a[id] is undefined for a missing key.
EntryIs(a, id, v) ==
  id \in DOMAIN a /\ a[id] = v

\* ------------------------------------------------- allocatePower helpers
\* Object.entries(loads).filter(([_, l]) => l.eligibility.eligible), as the
\* ids i..Len(ls) in insertion order.
RECURSIVE EligibleFrom(_, _)
EligibleFrom(i, ls) ==
  IF i > Len(ls) THEN <<>>
  ELSE IF ls[i].eligible THEN <<i>> \o EligibleFrom(i + 1, ls)
       ELSE EligibleFrom(i + 1, ls)

EligibleEntries(ls) ==
  EligibleFrom(1, ls)

\* Variant of PriorityBefore: the comparator subtracts the other way round.
PriorityBeforeAscending(a, b, ls) ==
  ls[a].score - ls[b].score < 0

\* The comparator (a, b) => b[1].priority.score - a[1].priority.score is
\* negative: a sorts before b.
PriorityBefore(a, b, ls) ==
  ls[b].score - ls[a].score < 0

\* Insert id x into the ordered ids s behind every id it does not have to
\* precede (Array.prototype.sort is stable).
RECURSIVE InsertByPriority(_, _, _)
InsertByPriority(x, s, ls) ==
  IF s = <<>> THEN <<x>>
  ELSE IF PriorityBefore(x, Head(s), ls) THEN <<x>> \o s
       ELSE <<Head(s)>> \o InsertByPriority(x, Tail(s), ls)

\* eligible.sort((a, b) => b[1].priority.score - a[1].priority.score)
RECURSIVE SortByPriority(_, _)
SortByPriority(ids, ls) ==
  IF ids = <<>> THEN <<>>
  ELSE InsertByPriority(ids[Len(ids)],
                        SortByPriority(SubSeq(ids, 1, Len(ids) - 1), ls), ls)

\* .filter((level) => level <= remainingPower + loadCurrentPower[loadId].power)
RECURSIVE FilterLevels(_, _)
FilterLevels(levels, limit) ==
  IF levels = <<>> THEN <<>>
  ELSE IF Head(levels) <= limit
       THEN <<Head(levels)>> \o FilterLevels(Tail(levels), limit)
       ELSE FilterLevels(Tail(levels), limit)

RECURSIVE InsertDescending(_, _)
InsertDescending(x, s) ==
  IF s = <<>> THEN <<x>>
  ELSE IF Head(s) - x < 0 THEN <<x>> \o s
       ELSE <<Head(s)>> \o InsertDescending(x, Tail(s))

\* .sort((a, b) => b - a)
RECURSIVE SortDescending(_)
SortDescending(s) ==
  IF s = <<>> THEN <<>>
  ELSE InsertDescending(s[Len(s)], SortDescending(SubSeq(s, 1, Len(s) - 1)))

\* Variant of LevelsAllowed: the load's own draw is not credited.
LevelsAllowedNoCredit(levels, remaining, power) ==
  SortDescending(FilterLevels(levels, remaining))

\* levelsAllowed of one load
LevelsAllowed(levels, remaining, power) ==
  SortDescending(FilterLevels(levels, remaining + power))

\* !maximumLevelForCurrentLoad, for maximumLevelForCurrentLoad = levelsAllowed[0]
NoMaximumLevel(levelsAllowed) ==
  levelsAllowed = <<>> \/ levelsAllowed[1] = 0

\* Variant of ServeLoad: the chosen level is not taken off remainingPower.
ServeLoadNoDeduct(st, id, ls, power) ==
  LET levelsAllowed == LevelsAllowed(ls[id].levels, st.remainingPower, power[id])
  IN IF NoMaximumLevel(levelsAllowed)
     THEN [remainingPower |-> st.remainingPower,
           allocations |-> SetAllocation(st.allocations, id, 0)]
     ELSE [remainingPower |-> st.remainingPower,
           allocations |-> SetAllocation(st.allocations, id, levelsAllowed[1])]

\* Variant of ServeLoad: the load receives all the power it may take instead
\* of one of its levels.
ServeLoadAllAvailable(st, id, ls, power) ==
  LET levelsAllowed == LevelsAllowed(ls[id].levels, st.remainingPower, power[id])
      all == st.remainingPower + power[id]
  IN IF NoMaximumLevel(levelsAllowed)
     THEN [remainingPower |-> st.remainingPower,
           allocations |-> SetAllocation(st.allocations, id, 0)]
     ELSE [remainingPower |-> st.remainingPower - all,
           allocations |-> SetAllocation(st.allocations, id, all)]

RECURSIVE TotalDraw(_)
TotalDraw(power) ==
  IF power = <<>> THEN 0 ELSE Head(power) + TotalDraw(Tail(power))

\* Variant of ServeLoad: the load is credited with the draw of every load
\* instead of its own.
ServeLoadCreditsAll(st, id, ls, power) ==
  LET levelsAllowed == LevelsAllowed(ls[id].levels, st.remainingPower,
                                     TotalDraw(power))
  IN IF NoMaximumLevel(levelsAllowed)
     THEN [remainingPower |-> st.remainingPower,
           allocations |-> SetAllocation(st.allocations, id, 0)]
     ELSE [remainingPower |-> st.remainingPower - levelsAllowed[1],
           allocations |-> SetAllocation(st.allocations, id, levelsAllowed[1])]

\* One iteration of the main loop: the load id is served from the local state
\* st = [remainingPower, allocations].
ServeLoad(st, id, ls, power) ==
  LET levelsAllowed == LevelsAllowed(ls[id].levels, st.remainingPower, power[id])
  IN IF NoMaximumLevel(levelsAllowed)
     THEN [remainingPower |-> st.remainingPower,
           allocations |-> SetAllocation(st.allocations, id, 0)]
     ELSE [remainingPower |-> st.remainingPower - levelsAllowed[1],
           allocations |-> SetAllocation(st.allocations, id, levelsAllowed[1])]

\* The second loop: it walks the eligible entries again.
RECURSIVE ZeroIneligible(_, _, _)
ZeroIneligible(a, ids, ls) ==
  IF ids = <<>> THEN a
  ELSE LET id == Head(ids)
           falsy == id \notin DOMAIN a \/ a[id] = 0
       IN IF ~ls[id].eligible /\ falsy
          THEN ZeroIneligible(SetAllocation(a, id, 0), Tail(ids), ls)
          ELSE ZeroIneligible(a, Tail(ids), ls)

\* ------------------------------------------------ allocatePower, stepwise
\* Variant of Enter: remainingPower is not a fresh local of the call.
EnterKeepRemaining(ls, available) ==
  /\ eligible' = SortByPriority(EligibleEntries(ls), ls)
  /\ remainingPower' = remainingPower + available
  /\ allocations' = EmptyAllocation
  /\ idx' = 1
  /\ pc' = "loop"

\* Lines 36-52: filter, sort, initialise the locals of the call.
Enter(ls, available) ==
  /\ eligible' = SortByPriority(EligibleEntries(ls), ls)
  /\ remainingPower' = available
  /\ allocations' = EmptyAllocation
  /\ idx' = 1
  /\ pc' = "loop"

\* allocatePower is entered with the arguments chosen initially.
AllocStart ==
  /\ pc = "call"
  /\ Enter(loads, availablePower)
  /\ UNCHANGED <<loads, loadCurrentPower, availablePower, saved>>
  /\ UNCHANGED mgrVars
  /\ UNCHANGED <<sysVars, aggVars>>

\* A further call of allocatePower after the previous one has returned; the
\* returned call may be kept in `saved`.
AllocCall ==
  /\ pc = "done"
  /\ \E n \in 0..MaxLoads :
       /\ loads' \in [1..n -> { LoadState(TRUE, l, s) :
                                  l \in DetLevelChoices, s \in ScoreChoices }]
       /\ loadCurrentPower' \in [1..n -> DetPowerChoices]
  /\ availablePower' \in DetBudgetChoices
  /\ Enter(loads', availablePower')
  /\ saved' \in { saved,
                  Some([loads |-> loads, power |-> loadCurrentPower,
                        available |-> availablePower, result |-> allocations]) }
  /\ UNCHANGED mgrVars
  /\ UNCHANGED <<sysVars, aggVars>>

\* Lines 54-91: one iteration of the loop over the eligible loads.
AllocStep ==
  /\ pc = "loop"
  /\ idx <= Len(eligible)
  /\ LET st == ServeLoad([remainingPower |-> remainingPower,
                          allocations |-> allocations],
                         eligible[idx], loads, loadCurrentPower)
     IN /\ remainingPower' = st.remainingPower
        /\ allocations' = st.allocations
  /\ idx' = idx + 1
  /\ UNCHANGED <<loads, loadCurrentPower, availablePower, pc, eligible, saved>>
  /\ UNCHANGED mgrVars
  /\ UNCHANGED <<sysVars, aggVars>>

\* Lines 93-106: the loop is exhausted, the second loop runs, the call returns.
AllocReturn ==
  /\ pc = "loop"
  /\ idx > Len(eligible)
  /\ allocations' = ZeroIneligible(allocations, eligible, loads)
  /\ pc' = "done"
  /\ UNCHANGED <<loads, loadCurrentPower, availablePower, eligible, idx,
                 remainingPower, saved>>
  /\ UNCHANGED mgrVars
  /\ UNCHANGED <<sysVars, aggVars>>

\* The whole call as a function of its arguments.
RECURSIVE ServeAll(_, _, _, _)
ServeAll(st, ids, ls, power) ==
  IF ids = <<>> THEN st
  ELSE ServeAll(ServeLoad(st, Head(ids), ls, power), Tail(ids), ls, power)

allocatePower(ls, power, available) ==
  LET ids == SortByPriority(EligibleEntries(ls), ls)
      st == ServeAll([remainingPower |-> available,
                      allocations |-> EmptyAllocation], ids, ls, power)
  IN ZeroIneligible(st.allocations, ids, ls)

\* --------------------------------------------------------- specifications
MgrIdle ==
  /\ numLoads = 1
  /\ loadStates = None
  /\ loadsActualPower = None
  /\ latestAvailablePower = None
  /\ powerAllocation = None
  /\ outcome = "idle"
  /\ decision = None
  /\ computed = 0

\* No value has been pushed into the rolling aggregate.
AggIdle ==
  /\ series = <<>>
  /\ window = <<>>
  /\ clock = 0
  /\ windowSize = 0
  /\ smoothed = None
  /\ arrivals = <<>>

\* expectedState$ = new BehaviorSubject({isActive: false, power: 0, ...})
ExpectedInitial ==
  [isActive |-> FALSE, power |-> 0, hasPendingCommand |-> FALSE]

\* The load objects right after their factories ran: nothing has emitted.
LoadConstructed ==
  /\ meterAlive = TRUE
  /\ telemetry = None
  /\ charging = None
  /\ powerState = None
  /\ expectedState = ExpectedInitial
  /\ debouncing = FALSE
  /\ command = None
  /\ sensorFailed = FALSE
  /\ otherPower = 0
  /\ elapsed = 0
  /\ raced = FALSE
  /\ pollCalls = 0
  /\ published = None
  /\ selfArmed = FALSE

\* The energy system before the enablement switch has emitted.
SysIdle ==
  /\ toggle = "unset"
  /\ running = FALSE
  /\ crashed = FALSE
  /\ notifications = 0
  /\ LoadConstructed

AllocLocalsInit ==
  /\ pc = "call"
  /\ eligible = <<>>
  /\ idx = 1
  /\ remainingPower = 0
  /\ allocations = EmptyAllocation
  /\ saved = None

\* allocatePower called once on any input of the bounded sets.
InitAlloc ==
  /\ \E n \in 0..MaxLoads :
       /\ loads \in [1..n -> LoadStates(LevelChoices, ScoreChoices)]
       /\ loadCurrentPower \in [1..n -> PowerChoices]
  /\ availablePower \in BudgetChoices
  /\ AllocLocalsInit
  /\ MgrIdle
  /\ AggIdle
  /\ SysIdle

NextAlloc ==
  \/ AllocStart
  \/ AllocStep
  \/ AllocReturn

SpecAlloc == InitAlloc /\ [][NextAlloc]_vars

\* allocatePower called again and again on inputs of the smaller sets.
InitDet ==
  /\ \E n \in 0..MaxLoads :
       /\ loads \in [1..n -> { LoadState(TRUE, l, s) :
                                 l \in DetLevelChoices, s \in ScoreChoices }]
       /\ loadCurrentPower \in [1..n -> DetPowerChoices]
  /\ availablePower \in DetBudgetChoices
  /\ AllocLocalsInit
  /\ MgrIdle
  /\ AggIdle
  /\ SysIdle

NextDet ==
  \/ AllocStart
  \/ AllocStep
  \/ AllocReturn
  \/ AllocCall

SpecDet == InitDet /\ [][NextDet]_vars

\* allocatePower called on one input while the result of a call on another
\* input with the same budget is kept for comparison.
InitPair ==
  /\ \E n \in 0..MaxLoads :
       /\ loads \in [1..n -> { LoadState(TRUE, l, s) :
                                 l \in PairLevelChoices, s \in ScoreChoices }]
       /\ loadCurrentPower \in [1..n -> DetPowerChoices]
  /\ availablePower \in DetBudgetChoices
  /\ \E m \in 0..MaxLoads :
       \E ls \in [1..m -> { LoadState(TRUE, l, s) :
                              l \in PairLevelChoices, s \in ScoreChoices }] :
         \E power \in [1..m -> DetPowerChoices] :
           saved = Some([loads |-> ls, power |-> power,
                         available |-> availablePower,
                         result |-> allocatePower(ls, power, availablePower)])
  /\ pc = "call"
  /\ eligible = <<>>
  /\ idx = 1
  /\ remainingPower = 0
  /\ allocations = EmptyAllocation
  /\ MgrIdle
  /\ AggIdle
  /\ SysIdle

NextPair ==
  \/ AllocStart
  \/ AllocStep
  \/ AllocReturn

SpecPair == InitPair /\ [][NextPair]_vars

\* allocatePower called once on inputs some of which hold a negative level.
\* The function has no validation and no throw statement: the call runs the
\* same statements as on any other input.
InitInvalid ==
  /\ \E n \in 1..MaxLoads :
       /\ loads \in [1..n -> { LoadState(TRUE, l, s) :
                                 l \in InvalidLevelChoices, s \in ScoreChoices }]
       /\ loadCurrentPower \in [1..n -> PowerChoices]
  /\ availablePower \in BudgetChoices
  /\ AllocLocalsInit
  /\ MgrIdle
  /\ AggIdle
  /\ SysIdle

SpecInvalid == InitInvalid /\ [][NextAlloc]_vars

\* ------------------------------------------------------------- the Manager
\* Variant of LoadsNotInSync: the comparison is inverted.
LoadsNotInSyncInverted(ls, lp, pa) ==
  IF pa = None THEN {}
  ELSE { id \in 1..Len(ls) : EntryIs(pa[1], id, lp[id]) }

\* Lines 242-247: loadsNotInSync; a null powerAllocation yields no load.
LoadsNotInSync(ls, lp, pa) ==
  IF pa = None THEN {}
  ELSE { id \in 1..Len(ls) : ~EntryIs(pa[1], id, lp[id]) }

\* Lines 225-270: combineLatest emits once every source has a value, and the
\* switchMap handler runs on the latest values.
Cycle(ls, lp, ap, pa) ==
  IF ls = None \/ lp = None \/ ap = None
  THEN /\ outcome' = "idle"
       /\ decision' = None
       /\ computed' = 0
  ELSE IF LoadsNotInSync(ls, lp, pa) # {}
       THEN /\ outcome' = "skipped"
            /\ decision' = None
            /\ computed' = 0
       ELSE /\ outcome' = "allocated"
            /\ decision' = Some(allocatePower(ls, lp, ap[1]))
            /\ computed' = computed + 1

\* allLoadStates$ emits: every load has emitted a state, or one load emits a
\* state that changes the combined record (distinctUntilChanged).
StatesEmit ==
  /\ decision = None
  /\ \E new \in [1..numLoads -> MgrStateChoices] :
       /\ \/ loadStates = None
          \/ /\ loadStates # None
             /\ new # loadStates
             /\ \E id \in 1..numLoads : new = [loadStates EXCEPT ![id] = new[id]]
       /\ loadStates' = new
       /\ Cycle(new, loadsActualPower, latestAvailablePower, powerAllocation)
  /\ UNCHANGED <<numLoads, loadsActualPower, latestAvailablePower, powerAllocation>>
  /\ UNCHANGED allocVars
  /\ UNCHANGED <<sysVars, aggVars>>

\* loadsActualPower emits: every load has emitted its power, or one load
\* emits again (no distinctUntilChanged on this source).
PowerEmit ==
  /\ decision = None
  /\ \E new \in [1..numLoads -> MgrPowerChoices] :
       /\ \/ loadsActualPower = None
          \/ /\ loadsActualPower # None
             /\ \E id \in 1..numLoads :
                  new = [loadsActualPower EXCEPT ![id] = new[id]]
       /\ loadsActualPower' = new
       /\ Cycle(loadStates, new, latestAvailablePower, powerAllocation)
  /\ UNCHANGED <<numLoads, loadStates, latestAvailablePower, powerAllocation>>
  /\ UNCHANGED allocVars
  /\ UNCHANGED <<sysVars, aggVars>>

\* availablePower$ emits a new smoothed budget (distinctUntilChanged).
AvailableEmit ==
  /\ decision = None
  /\ \E b \in MgrBudgetChoices :
       /\ Some(b) # latestAvailablePower
       /\ latestAvailablePower' = Some(b)
       /\ Cycle(loadStates, loadsActualPower, Some(b), powerAllocation)
  /\ UNCHANGED <<numLoads, loadStates, loadsActualPower, powerAllocation>>
  /\ UNCHANGED allocVars
  /\ UNCHANGED <<sysVars, aggVars>>

\* No fed-back allocation is taken to equal the previous one.
SameAllocationNever(previous, allocation) ==
  FALSE

\* distinctUntilChanged((a, b) => isDeepStrictEqual(a, b)) on the
\* powerAllocation$ source of decision$: an equal allocation is not passed on.
SameAllocation(previous, allocation) ==
  previous = allocation

\* The fed-back allocation replaces the entries of the loads after the first
\* and keeps the first load's previous entry.
PublishMerged(previous, allocation) ==
  IF previous = None \/ allocation = None THEN allocation
  ELSE Some([id \in DOMAIN allocation[1] |->
               IF id = 1 /\ id \in DOMAIN previous[1]
               THEN previous[1][id] ELSE allocation[1][id]])

\* powerAllocation$.next(allocation): the map emitted by decision$ becomes
\* the value of powerAllocation$ as a whole.
Publish(previous, allocation) ==
  allocation

\* createEnergySystem$ feeds the emitted allocation back with
\* powerAllocation$.next; the decision stream sees it through
\* distinctUntilChanged(isDeepStrictEqual) and runs again when it differs.
Feedback ==
  /\ decision # None
  /\ IF SameAllocation(powerAllocation, decision)
     THEN /\ outcome' = "idle"
          /\ decision' = None
          /\ computed' = 0
          /\ UNCHANGED powerAllocation
     ELSE /\ powerAllocation' = Publish(powerAllocation, decision)
          /\ Cycle(loadStates, loadsActualPower, latestAvailablePower, decision)
  /\ UNCHANGED <<numLoads, loadStates, loadsActualPower, latestAvailablePower>>
  /\ UNCHANGED allocVars
  /\ UNCHANGED <<sysVars, aggVars>>

\* State after construction: powerAllocation$ holds null, nothing has emitted.
Init ==
  /\ numLoads \in 1..MaxLoads
  /\ loadStates = None
  /\ loadsActualPower = None
  /\ latestAvailablePower = None
  /\ powerAllocation = None
  /\ outcome = "idle"
  /\ decision = None
  /\ computed = 0
  /\ loads = <<>>
  /\ loadCurrentPower = <<>>
  /\ availablePower = 0
  /\ AllocLocalsInit
  /\ AggIdle
  /\ SysIdle

Next ==
  \/ StatesEmit
  \/ PowerEmit
  \/ AvailableEmit
  \/ Feedback

Spec == Init /\ [][Next]_vars

\* ------------------------------------------------------- the energy system
\* Lines 212-231 of the charging load: eligibility$.
Eligibility(t) ==
  IF ~t.pluggedIn THEN [eligible |-> FALSE, reason |-> "not-plugged-in"]
  ELSE IF t.battery >= t.limit
       THEN [eligible |-> FALSE, reason |-> "battery-full"]
       ELSE [eligible |-> TRUE, reason |-> "car-is-in-need-of-charging"]

Min(a, b) ==
  IF a < b THEN a ELSE b

\* Lines 234-250: priority$; 50 + min(30, (limit - battery) * 0.6), exact for
\* the multiples of 5 the telemetry draws from.
Score(t) ==
  50 + Min(30, ((t.limit - t.battery) * 6) \div 10)

\* Lines 357-366: the state the load hands to the Manager.
DeclaredState(t) ==
  LoadState(Eligibility(t).eligible,
            IF Eligibility(t).eligible THEN <<1000, 2000>> ELSE <<>>,
            Score(t))

\* The other load: always allowed to draw its single level, lower priority.
OtherState ==
  LoadState(TRUE, <<1000>>, 30)

\* Variant of Target: a null allocation is taken as a target of 0W.
TargetOfNull ==
  IF powerAllocation = None THEN Some(0)
  ELSE IF TeslaId \in DOMAIN powerAllocation[1]
       THEN Some(powerAllocation[1][TeslaId])
       ELSE Some(0)

\* Lines 117-120: allocatedPower$; nothing until the first allocation, then
\* input.allocatedPower[CHARGE_LOAD_ID] ?? 0.
Target ==
  IF powerAllocation = None THEN None
  ELSE IF TeslaId \in DOMAIN powerAllocation[1]
       THEN Some(powerAllocation[1][TeslaId])
       ELSE Some(0)

\* Math.round(targetPower / ENERGY_CONFIG.wattsPerAmp)
Amps(targetPower) ==
  (2 * targetPower + WattsPerAmp) \div (2 * WattsPerAmp)

\* The switchMap of the enablement switch keeps its inner observable
\* subscribed whatever the switch says.
SwitchInnerKept(current) ==
  TRUE

\* The switchMap of the enablement switch: the inner observable is the energy
\* system when the switch is on and EMPTY when it is off.
SwitchInner(current) ==
  current

\* An error of getChargeState$ that nothing catches.
ReadErrorUncaught ==
  TRUE

\* Lines 154-159: catchError inside the inner observable of the poll; the
\* error does not reach powerState$.
ReadErrorPropagates ==
  FALSE

\* An error of an actuator command that nothing catches.
CommandErrorUncaught ==
  TRUE

\* Lines 306-310 and 338-345: catchError on the command; the error does not
\* reach reconcile$.
CommandErrorPropagates ==
  FALSE

\* The events of a running system are handled one at a time: an allocation
\* emitted by decision$ is fed back before anything else happens.
Live ==
  /\ running
  /\ ~crashed
  /\ decision = None

NoCycle ==
  /\ outcome' = "idle"
  /\ decision' = None
  /\ computed' = 0

\* debounceTime(1000) on reconcile$, in milliseconds.
DebounceMs == 1000

\* How far time advances in one step while the debounce is armed.
TickChoices == {500}

\* The handler of reconcile$ runs on every value, without waiting.
DebounceElapsedAtOnce(ms) ==
  TRUE

\* debounceTime lets the latest value through once nothing has arrived for
\* the whole period.
DebounceElapsed(ms) ==
  ms >= DebounceMs

\* Lines 153-160: each tick of the poll subscribes to getChargeState$ once;
\* catchError ends that subscription and nothing subscribes again.
PollCalls == 1

\* An actuator call of the command has been sent and has not resolved.
InFlight(cmd) ==
  cmd # None /\ cmd[1].result = "pending"

\* A command in flight keeps running and the new one is dropped.
SupersedeKeepInFlight(previous, next) ==
  IF InFlight(previous) THEN previous ELSE next

\* switchMap of reconcile$ (line 266): the inner observable of the previous
\* step is unsubscribed and the new one takes its place.
Supersede(previous, next) ==
  next

\* A successful command puts expectedState$ back to its initial value.
ExpectedOnSuccessReset(expected, cmd) ==
  ExpectedInitial

\* Lines 302-305 and 334-337: the tap on a successful command logs and asks
\* for a sensor read; expectedState$ is left as the step set it.
ExpectedOnSuccess(expected, cmd) ==
  expected

\* Lines 161-165 and 179-184: the map of bleState$ tags its values "high";
\* the map of mqttState$ tags "medium" both the value made from the
\* startWith([]) and the values made from telemetry.
Confidence(source) ==
  IF source = "ble" THEN "high" ELSE "medium"

\* What powerState$ (lines 188-209) last let through: a value that passes
\* distinctUntilChanged carries the tag of its source, a suppressed value
\* leaves the earlier one published.
Publication(source, before, after, earlier) ==
  IF after # before
  THEN Some([source |-> source, confidence |-> Confidence(source)])
  ELSE earlier

\* powerState$ (lines 188-209) receives ps: distinctUntilChanged lets it
\* through when isActive or power differ; the Manager's loadsActualPower and
\* the load's reconcile$ both receive it.
PowerStateEmit(ps) ==
  IF Some(ps) = powerState
  THEN /\ UNCHANGED <<powerState, loadsActualPower, debouncing, elapsed,
                       selfArmed>>
       /\ NoCycle
  ELSE /\ powerState' = Some(ps)
       /\ loadsActualPower' = <<ps.power, otherPower>>
       /\ debouncing' = (debouncing \/ Target # None)
       /\ elapsed' = 0
       /\ selfArmed' = FALSE
       /\ Cycle(loadStates, <<ps.power, otherPower>>, latestAvailablePower,
                powerAllocation)

\* The enablement switch turns on: createEnergySystem$ builds a new
\* powerAllocation$, new loads and a new Manager.
ToggleOn ==
  /\ ~crashed
  /\ toggle # "on"
  /\ toggle' = "on"
  /\ running' = SwitchInner(TRUE)
  /\ loadStates' = None
  /\ loadsActualPower' = None
  /\ latestAvailablePower' = None
  /\ powerAllocation' = None
  /\ outcome' = "idle"
  /\ decision' = None
  /\ computed' = 0
  /\ meterAlive' = TRUE
  /\ telemetry' = None
  /\ charging' = None
  /\ powerState' = None
  /\ expectedState' = ExpectedInitial
  /\ debouncing' = FALSE
  /\ command' = None
  /\ sensorFailed' = FALSE
  /\ otherPower' = 0
  /\ elapsed' = 0
  /\ raced' = FALSE
  /\ pollCalls' = 0
  /\ published' = None
  /\ selfArmed' = FALSE
  /\ UNCHANGED <<numLoads, crashed, notifications>>
  /\ UNCHANGED allocVars
  /\ UNCHANGED aggVars

\* The enablement switch turns off: switchMap unsubscribes the energy system.
ToggleOff ==
  /\ ~crashed
  /\ toggle = "on"
  /\ toggle' = "off"
  /\ running' = SwitchInner(FALSE)
  /\ UNCHANGED <<crashed, meterAlive, telemetry, charging, powerState,
                 expectedState, debouncing, command, sensorFailed,
                 notifications, otherPower, elapsed, raced, pollCalls,
                 published, selfArmed>>
  /\ UNCHANGED mgrVars
  /\ UNCHANGED allocVars
  /\ UNCHANGED aggVars

\* Teslamate reports battery level, charge limit and plug state; state$
\* emits when eligibility$ or priority$ let a change through.
TelemetryEmit ==
  /\ Live
  /\ \E t \in TelemetryChoices :
       /\ Some(t) # telemetry
       /\ telemetry' = Some(t)
       /\ IF \/ telemetry = None
             \/ Eligibility(t) # Eligibility(telemetry[1])
             \/ Score(t) # Score(telemetry[1])
          THEN /\ loadStates' = <<DeclaredState(t), OtherState>>
               /\ Cycle(<<DeclaredState(t), OtherState>>, loadsActualPower,
                        latestAvailablePower, powerAllocation)
          ELSE /\ UNCHANGED loadStates
               /\ NoCycle
  /\ UNCHANGED <<numLoads, loadsActualPower, latestAvailablePower,
                 powerAllocation>>
  /\ UNCHANGED <<toggle, running, crashed, meterAlive, charging, powerState,
                 expectedState, debouncing, command, sensorFailed,
                 notifications, otherPower,
                 elapsed, raced, pollCalls,
                 published, selfArmed>>
  /\ UNCHANGED allocVars
  /\ UNCHANGED aggVars

\* Teslamate's chargingState changes (lines 130-135). Not charging: powerState$
\* switches to mqttState$, which reports isActive false and power 0. Charging:
\* it switches to bleState$, whose reads follow.
ChargingEmit ==
  /\ Live
  /\ \E c \in BOOLEAN :
       /\ Some(c) # charging
       /\ charging' = Some(c)
       /\ IF c
          THEN /\ UNCHANGED <<powerState, loadsActualPower, debouncing,
                            elapsed, selfArmed>>
               /\ NoCycle
          ELSE PowerStateEmit([isActive |-> FALSE, power |-> 0])
  /\ published' = Publication("startWith", powerState, powerState',
                             published)
  /\ UNCHANGED <<numLoads, loadStates, latestAvailablePower, powerAllocation>>
  /\ UNCHANGED <<toggle, running, crashed, meterAlive, telemetry,
                 expectedState, command, sensorFailed, notifications,
                 otherPower,
                 raced, pollCalls>>
  /\ UNCHANGED allocVars
  /\ UNCHANGED aggVars

\* A poll of the BLE sensor succeeds (lines 148-166).
BleReadOk ==
  /\ Live
  /\ charging = Some(TRUE)
  /\ \E ps \in BlePowerChoices : PowerStateEmit(ps)
  /\ published' = Publication("ble", powerState, powerState', published)
  /\ UNCHANGED <<numLoads, loadStates, latestAvailablePower, powerAllocation>>
  /\ UNCHANGED <<toggle, running, crashed, meterAlive, telemetry, charging,
                 expectedState, command, sensorFailed, notifications,
                 otherPower,
                 raced, pollCalls>>
  /\ UNCHANGED allocVars
  /\ UNCHANGED aggVars

\* A poll of the BLE sensor fails (lines 154-159): nothing is emitted.
BleReadFail ==
  /\ Live
  /\ charging = Some(TRUE)
  /\ sensorFailed' = TRUE
  /\ pollCalls' = PollCalls
  /\ crashed' = ReadErrorPropagates
  /\ UNCHANGED mgrVars
  /\ UNCHANGED <<toggle, running, meterAlive, telemetry, charging, powerState,
                 expectedState, debouncing, command, notifications,
                 otherPower,
                 elapsed, raced,
                 published, selfArmed>>
  /\ UNCHANGED allocVars
  /\ UNCHANGED aggVars

\* The other load reports a new observed power.
OtherPowerEmit ==
  /\ Live
  /\ \E p \in OtherPowerChoices :
       /\ p # otherPower
       /\ otherPower' = p
       /\ IF loadsActualPower = None
          THEN /\ UNCHANGED loadsActualPower
               /\ NoCycle
          ELSE /\ loadsActualPower' = <<loadsActualPower[TeslaId], p>>
               /\ Cycle(loadStates, <<loadsActualPower[TeslaId], p>>,
                        latestAvailablePower, powerAllocation)
  /\ UNCHANGED <<numLoads, loadStates, latestAvailablePower, powerAllocation>>
  /\ UNCHANGED <<toggle, running, crashed, meterAlive, telemetry, charging,
                 powerState, expectedState, debouncing, command, sensorFailed,
                 notifications,
                 elapsed, raced, pollCalls,
                 published, selfArmed>>
  /\ UNCHANGED allocVars
  /\ UNCHANGED aggVars

\* A poll of the premises meter succeeds and the smoothed budget changes
\* (HomeWizardP1.data$, createRollingAverage$ with distinctUntilChanged).
MeterReadOk ==
  /\ Live
  /\ meterAlive
  /\ \E b \in SysBudgetChoices :
       /\ Some(b) # latestAvailablePower
       /\ latestAvailablePower' = Some(b)
       /\ Cycle(loadStates, loadsActualPower, Some(b), powerAllocation)
  /\ UNCHANGED <<numLoads, loadStates, loadsActualPower, powerAllocation>>
  /\ UNCHANGED sysVars
  /\ UNCHANGED allocVars
  /\ UNCHANGED aggVars

\* A poll of the premises meter fails: the error leaves the switchMap,
\* catchError on the outer pipe replaces the whole stream by EMPTY, and the
\* stream completes. The interval is unsubscribed.
MeterReadFail ==
  /\ Live
  /\ meterAlive
  /\ meterAlive' = FALSE
  /\ UNCHANGED mgrVars
  /\ UNCHANGED <<toggle, running, crashed, telemetry, charging, powerState,
                 expectedState, debouncing, command, sensorFailed,
                 notifications, otherPower,
                 elapsed, raced, pollCalls,
                 published, selfArmed>>
  /\ UNCHANGED allocVars
  /\ UNCHANGED aggVars

\* createEnergySystem$ feeds the emitted allocation back with
\* powerAllocation$.next: the load's allocatedPower$ emits on every call, the
\* decision stream runs again when the allocation differs.
SysFeedback ==
  /\ running
  /\ ~crashed
  /\ decision # None
  /\ powerAllocation' = Publish(powerAllocation, decision)
  /\ debouncing' = (debouncing \/ powerState # None)
  /\ elapsed' = 0
  /\ selfArmed' = FALSE
  /\ raced' = (IF Target' # Target THEN InFlight(command) ELSE raced)
  /\ IF SameAllocation(powerAllocation, decision)
     THEN NoCycle
     ELSE Cycle(loadStates, loadsActualPower, latestAvailablePower, decision)
  /\ UNCHANGED <<numLoads, loadStates, loadsActualPower, latestAvailablePower>>
  /\ UNCHANGED <<toggle, running, crashed, meterAlive, telemetry, charging,
                 powerState, expectedState, command, sensorFailed,
                 notifications, otherPower,
                 pollCalls,
                 published>>
  /\ UNCHANGED allocVars
  /\ UNCHANGED aggVars

\* expectedState$ is overwritten whether or not target and observed agree.
ExpectedAfterEager(targetPower, actualPower, expected) ==
  IF expected.power # (IF targetPower > 0 THEN targetPower ELSE 0)
  THEN [isActive |-> targetPower > 0, power |-> targetPower,
        hasPendingCommand |-> FALSE]
  ELSE expected

\* The step writes isActive true whatever the target is.
ExpectedAfterActive(targetPower, actualPower, expected) ==
  IF targetPower = actualPower THEN expected
  ELSE IF expected.power # (IF targetPower > 0 THEN targetPower ELSE 0)
       THEN [isActive |-> TRUE, power |-> targetPower,
             hasPendingCommand |-> FALSE]
       ELSE expected

\* Lines 275-293: what the step leaves in expectedState$.
ExpectedAfter(targetPower, actualPower, expected) ==
  IF targetPower = actualPower THEN expected
  ELSE IF expected.power # (IF targetPower > 0 THEN targetPower ELSE 0)
       THEN [isActive |-> targetPower > 0, power |-> targetPower,
             hasPendingCommand |-> FALSE]
       ELSE expected

NewCommand(kind, target, call) ==
  Some([kind |-> kind, target |-> target, amps |-> Amps(target),
        call |-> call, attempts |-> 1,
        result |-> "pending"])

\* The step always sends set_charging_amps alone.
ReconcileCommandAdjustOnly(targetPower, actualPower) ==
  IF targetPower = actualPower THEN None
  ELSE NewCommand("adjust", targetPower, "set_charging_amps")

\* Lines 275-349: the command the step issues. A start is set_charging_amps
\* followed by charge_start.
ReconcileCommand(targetPower, actualPower) ==
  IF targetPower = actualPower THEN None
  ELSE IF targetPower = 0 /\ actualPower > 0
       THEN NewCommand("stop", 0, "charge_stop")
  ELSE IF targetPower > 0
       THEN IF actualPower = 0
            THEN NewCommand("start", targetPower, "set_charging_amps")
            ELSE NewCommand("adjust", targetPower, "set_charging_amps")
  ELSE None

\* The debounce of reconcile$ (lines 259-351) elapses: switchMap drops the
\* command of the previous step and runs the handler on the latest target,
\* observed power and expected state. An update of expectedState$ re-arms the
\* debounce and makes state$ emit to the Manager.
ReconcileStep ==
  /\ Live
  /\ debouncing
  /\ DebounceElapsed(elapsed)
  /\ LET targetPower == Target[1]
         actualPower == powerState[1].power
         after == ExpectedAfter(targetPower, actualPower, expectedState)
     IN /\ expectedState' = after
        /\ debouncing' = (after # expectedState)
        /\ elapsed' = 0
        /\ selfArmed' = (after # expectedState)
        /\ command' = Supersede(command,
                              ReconcileCommand(targetPower, actualPower))
        /\ IF after # expectedState
           THEN Cycle(loadStates, loadsActualPower, latestAvailablePower,
                      powerAllocation)
           ELSE NoCycle
  /\ UNCHANGED <<numLoads, loadStates, loadsActualPower, latestAvailablePower,
                 powerAllocation>>
  /\ UNCHANGED <<toggle, running, crashed, meterAlive, telemetry, charging,
                 powerState, sensorFailed, notifications, otherPower,
                 raced, pollCalls,
                 published>>
  /\ UNCHANGED allocVars
  /\ UNCHANGED aggVars

\* The actuator call in flight succeeds: a start goes on to charge_start
\* (line 330), any other call ends the command.
CommandOk ==
  /\ Live
  /\ command # None
  /\ command[1].result = "pending"
  /\ IF command[1].kind = "start" /\ command[1].call = "set_charging_amps"
     THEN /\ command' = Some([command[1] EXCEPT !.call = "charge_start",
                                                !.attempts = @ + 1])
          /\ UNCHANGED expectedState
     ELSE /\ command' = Some([command[1] EXCEPT !.result = "ok"])
          /\ expectedState' = ExpectedOnSuccess(expectedState, command[1])
  /\ UNCHANGED mgrVars
  /\ UNCHANGED <<toggle, running, crashed, meterAlive, telemetry, charging,
                 powerState, debouncing, sensorFailed,
                 notifications, otherPower,
                 elapsed, raced, pollCalls,
                 published, selfArmed>>
  /\ UNCHANGED allocVars
  /\ UNCHANGED aggVars

\* A failed set_charging_amps of a start is followed by charge_start all the
\* same.
AfterFailureGoesOn(cmd) ==
  IF cmd.kind = "start" /\ cmd.call = "set_charging_amps"
  THEN [cmd EXCEPT !.call = "charge_start", !.attempts = @ + 1,
                   !.result = "failed"]
  ELSE [cmd EXCEPT !.result = "failed"]

\* sendCommand$ throws on every failure (TeslaBle.ts lines 160-217); the error
\* passes the switchMap to charge_start (lines 325-328) without entering it
\* and catchError ends the command at the call that failed.
AfterFailure(cmd) ==
  [cmd EXCEPT !.result = "failed"]

\* The actuator call in flight fails (lines 306-310, 338-345): the error is
\* logged and swallowed; the call is not repeated, expectedState$ is left as
\* it is and nothing is sent to the notification service.
CommandFail ==
  /\ Live
  /\ command # None
  /\ command[1].result = "pending"
  /\ command' = Some(AfterFailure(command[1]))
  /\ crashed' = CommandErrorPropagates
  /\ UNCHANGED mgrVars
  /\ UNCHANGED <<toggle, running, meterAlive, telemetry, charging, powerState,
                 expectedState, debouncing, sensorFailed, notifications,
                 otherPower,
                 elapsed, raced, pollCalls,
                 published, selfArmed>>
  /\ UNCHANGED allocVars
  /\ UNCHANGED aggVars

\* Time passes while the debounce timer of reconcile$ is armed.
Tick ==
  /\ Live
  /\ debouncing
  /\ elapsed < DebounceMs
  /\ \E d \in TickChoices : elapsed' = Min(elapsed + d, DebounceMs)
  /\ UNCHANGED mgrVars
  /\ UNCHANGED <<toggle, running, crashed, meterAlive, telemetry, charging,
                 powerState, expectedState, debouncing, command, sensorFailed,
                 notifications, otherPower, raced, pollCalls, published,
                 selfArmed>>
  /\ UNCHANGED allocVars
  /\ UNCHANGED aggVars

InitSys ==
  /\ numLoads = 2
  /\ loadStates = None
  /\ loadsActualPower = None
  /\ latestAvailablePower = None
  /\ powerAllocation = None
  /\ outcome = "idle"
  /\ decision = None
  /\ computed = 0
  /\ SysIdle
  /\ loads = <<>>
  /\ loadCurrentPower = <<>>
  /\ availablePower = 0
  /\ AllocLocalsInit
  /\ AggIdle

NextSys ==
  \/ ToggleOn
  \/ ToggleOff
  \/ TelemetryEmit
  \/ ChargingEmit
  \/ BleReadOk
  \/ BleReadFail
  \/ OtherPowerEmit
  \/ MeterReadOk
  \/ MeterReadFail
  \/ SysFeedback
  \/ ReconcileStep
  \/ CommandOk
  \/ CommandFail
  \/ Tick

SpecSys == InitSys /\ [][NextSys]_vars

\* ------------------------------------------------- smoothing, aggregations
\* A quotient n / d of the aggregation functions, kept exact: <<n, d>>, d > 0.
Ratio(n, d) ==
  <<n, d>>

\* q === c
RatioIs(q, c) ==
  q[1] = c * q[2]

\* Math.floor(q)
MathFloor(q) ==
  q[1] \div q[2]

RECURSIVE SumSeq(_)
SumSeq(s) ==
  IF s = <<>> THEN 0 ELSE Head(s) + SumSeq(Tail(s))

RECURSIVE SumProducts(_, _)
SumProducts(s, w) ==
  IF s = <<>> THEN 0 ELSE Head(s) * Head(w) + SumProducts(Tail(s), Tail(w))

RECURSIVE InsertAscending(_, _)
InsertAscending(sorted, v) ==
  IF sorted = <<>> THEN <<v>>
  ELSE IF v - Head(sorted) < 0 THEN <<v>> \o sorted
       ELSE <<Head(sorted)>> \o InsertAscending(Tail(sorted), v)

\* [...values].sort((a, b) => a - b)
RECURSIVE SortAscending(_)
SortAscending(values) ==
  IF values = <<>> THEN <<>>
  ELSE InsertAscending(SortAscending(SubSeq(values, 1, Len(values) - 1)),
                       values[Len(values)])

mean(values) ==
  IF Len(values) = 0 THEN Ratio(0, 1)
  ELSE Ratio(SumSeq(values), Len(values))

\* median that takes the middle element without sorting
medianUnsorted(values) ==
  IF Len(values) = 0 THEN Ratio(0, 1)
  ELSE LET mid == Len(values) \div 2
       IN IF Len(values) % 2 = 0
          THEN Ratio(values[mid] + values[mid + 1], 2)
          ELSE Ratio(values[mid + 1], 1)

median(values) ==
  IF Len(values) = 0 THEN Ratio(0, 1)
  ELSE LET sorted == SortAscending(values)
           mid == Len(sorted) \div 2
       IN IF Len(sorted) % 2 = 0
          THEN Ratio(sorted[mid] + sorted[mid + 1], 2)
          ELSE Ratio(sorted[mid + 1], 1)

trimmedMean(trimPercent, values) ==
  IF Len(values) = 0 THEN Ratio(0, 1)
  ELSE IF Len(values) <= 2 THEN mean(values)
  ELSE LET sorted == SortAscending(values)
           trimCount == (Len(sorted) * trimPercent) \div 100
       IN mean(SubSeq(sorted, trimCount + 1, Len(sorted) - trimCount))

\* weightedMean that does not divide by the sum of the weights
weightedMeanUnnormalised(weights, values) ==
  IF Len(values) = 0 THEN Ratio(0, 1)
  ELSE LET numValues == Len(values)
           numWeights == Len(weights)
           effectiveValues ==
             IF numValues > numWeights
             THEN SubSeq(values, numValues - numWeights + 1, numValues)
             ELSE values
           effectiveWeights ==
             IF numValues < numWeights
             THEN SubSeq(weights, numWeights - numValues + 1, numWeights)
             ELSE weights
           weightedSum == SumProducts(effectiveValues, effectiveWeights)
           weightSum == SumSeq(effectiveWeights)
       IN IF weightSum > 0 THEN Ratio(weightedSum, 1) ELSE Ratio(0, 1)

\* weightedMean that pairs the oldest values with the first weights
weightedMeanFromFront(weights, values) ==
  IF Len(values) = 0 THEN Ratio(0, 1)
  ELSE LET numValues == Len(values)
           numWeights == Len(weights)
           effectiveValues ==
             IF numValues > numWeights
             THEN SubSeq(values, 1, numWeights)
             ELSE values
           effectiveWeights ==
             IF numValues < numWeights
             THEN SubSeq(weights, 1, numValues)
             ELSE weights
           weightedSum == SumProducts(effectiveValues, effectiveWeights)
           weightSum == SumSeq(effectiveWeights)
       IN IF weightSum > 0 THEN Ratio(weightedSum, weightSum) ELSE Ratio(0, 1)

weightedMean(weights, values) ==
  IF Len(values) = 0 THEN Ratio(0, 1)
  ELSE LET numValues == Len(values)
           numWeights == Len(weights)
           effectiveValues ==
             IF numValues > numWeights
             THEN SubSeq(values, numValues - numWeights + 1, numValues)
             ELSE values
           effectiveWeights ==
             IF numValues < numWeights
             THEN SubSeq(weights, numWeights - numValues + 1, numWeights)
             ELSE weights
           weightedSum == SumProducts(effectiveValues, effectiveWeights)
           weightSum == SumSeq(effectiveWeights)
       IN IF weightSum > 0 THEN Ratio(weightedSum, weightSum) ELSE Ratio(0, 1)

\* The weights that weightedMean applies to a window of n values.
EffectiveWeights(weights, n) ==
  IF n < Len(weights)
  THEN SubSeq(weights, Len(weights) - n + 1, Len(weights))
  ELSE weights

\* The reducer drops the item that is exactly as old as the window.
ScanStrict(acc, curr, size) ==
  LET updated == Append(acc, curr)
      cutoffTime == curr.timestamp - size
  IN SelectSeq(updated, LAMBDA item : item.timestamp > cutoffTime)

\* The reducer of the scan: append the current item, drop what is older than
\* the window.
Scan(acc, curr, size) ==
  LET updated == Append(acc, curr)
      cutoffTime == curr.timestamp - size
  IN SelectSeq(updated, LAMBDA item : item.timestamp >= cutoffTime)

WindowValues(timestampedValues) ==
  [ i \in 1..Len(timestampedValues) |-> timestampedValues[i].value ]

\* rollingAverage's map, for every aggregation function offered.
Aggregates(timestampedValues) ==
  LET values == WindowValues(timestampedValues)
  IN [ mean |-> mean(values),
       median |-> median(values),
       trimmedMean |-> [ p \in TrimChoices |-> trimmedMean(p, values) ],
       weightedMean |-> [ w \in WeightChoices |-> weightedMean(w, values) ] ]

\* The source emits v, gap milliseconds after its previous value.
Push ==
  /\ Len(series) < MaxSeries
  /\ \E v \in ValueChoices, gap \in GapChoices :
       LET now == clock + gap
           kept == Scan(window, [value |-> v, timestamp |-> now], windowSize)
       IN /\ clock' = now
          /\ window' = kept
          /\ series' = Append(series, v)
          /\ arrivals' = Append(arrivals, now)
          /\ smoothed' = Some(Aggregates(kept))
  /\ UNCHANGED windowSize
  /\ UNCHANGED allocVars
  /\ UNCHANGED mgrVars
  /\ UNCHANGED sysVars

InitAgg ==
  /\ series = <<>>
  /\ window = <<>>
  /\ clock = 0
  /\ windowSize \in WindowSizeChoices
  /\ smoothed = None
  /\ arrivals = <<>>
  /\ loads = <<>>
  /\ loadCurrentPower = <<>>
  /\ availablePower = 0
  /\ AllocLocalsInit
  /\ MgrIdle
  /\ SysIdle

NextAgg ==
  Push

SpecAgg == InitAgg /\ [][NextAgg]_vars

\* ------------------------------------------------ properties, allocatePower
Range(s) ==
  { s[i] : i \in DOMAIN s }

RECURSIVE SumOver(_, _)
SumOver(S, f) ==
  IF S = {} THEN 0
  ELSE LET x == CHOOSE y \in S : TRUE
       IN f[x] + SumOver(S \ {x}, f)

MaxOf(S) ==
  CHOOSE m \in S : \A x \in S : x <= m

InputIds ==
  1..Len(loads)

\* Sum of the allocated levels over all loads.
TotalAllocated ==
  SumOver(DOMAIN allocations, allocations)

\* Sum of the observed power of the loads that were already active.
ActiveObserved ==
  SumOver({ id \in InputIds : loadCurrentPower[id] > 0 }, loadCurrentPower)

\* C2 as stated: for every input, negative budgets included, the sum of the
\* allocated levels never exceeds budget + the observed power of the loads
\* that were already active.
C2_SumWithinBudgetPlusObserved ==
  pc = "done" => TotalAllocated <= availablePower + ActiveObserved

\* C2 amended: the sum of the allocated levels never exceeds budget + the
\* observed power of the active loads, except that it is 0 when that bound is
\* negative.
C2_SumWithinNonNegativeBound ==
  pc = "done" =>
    TotalAllocated <= (IF availablePower + ActiveObserved < 0 THEN 0
                       ELSE availablePower + ActiveObserved)

\* A call under a negative budget that still allocates, exactly up to the bound.
C2_Witness ==
  /\ pc = "done"
  /\ availablePower < 0
  /\ TotalAllocated > 0
  /\ TotalAllocated = availablePower + ActiveObserved

\* The largest level of S that is <= limit, 0 when there is none.
LargestFeasible(S, limit) ==
  LET F == { l \in S : l <= limit }
  IN IF F = {} THEN 0 ELSE MaxOf(F)

\* C3: every load served with a non-empty level set is allocated the largest
\* level L of the set with L <= remaining + its observed power, remaining being
\* the budget left when the load is served; 0 when no level satisfies this.
C3_LargestFeasibleLevel ==
  [][ (pc = "loop" /\ idx <= Len(eligible) /\ idx' = idx + 1
         /\ loads[eligible[idx]].levels # <<>>)
      => /\ eligible[idx] \in DOMAIN allocations'
         /\ allocations'[eligible[idx]] =
              LargestFeasible(Range(loads[eligible[idx]].levels),
                              remainingPower + loadCurrentPower[eligible[idx]])
    ]_vars

\* The call of the claim: one load drawing 2000W, levels {0, 1000, 2000},
\* budget -1000, allocated 1000.
C3_Witness ==
  /\ pc = "done"
  /\ Len(loads) = 1
  /\ loads[1] = LoadState(TRUE, <<0, 1000, 2000>>, 80)
  /\ loadCurrentPower[1] = 2000
  /\ availablePower = 0 - 1000
  /\ allocations = <<1000>>

\* C4 as stated: with budget 0, a served load that draws P watts and offers the
\* levels {P} is allocated P, whatever its rank among the other loads.
C4_SelfConsumptionCredit ==
  (pc = "done" /\ availablePower = 0) =>
    \A id \in InputIds :
      (loads[id].eligible /\ loads[id].levels = <<loadCurrentPower[id]>>)
        => EntryIs(allocations, id, loadCurrentPower[id])

\* The ids of `eligible` are in descending score, equal scores in input order.
ServedInPriorityOrder ==
  \A p, q \in 1..Len(eligible) :
    p < q =>
      \/ loads[eligible[p]].score > loads[eligible[q]].score
      \/ /\ loads[eligible[p]].score = loads[eligible[q]].score
         /\ eligible[p] < eligible[q]

\* Two eligible idle loads with the same levels, budget enough for the lowest
\* level of one of them only.
TwoCompeting ==
  /\ Len(loads) = 2
  /\ loads[1].eligible /\ loads[2].eligible
  /\ loads[1].levels = loads[2].levels
  /\ loads[1].levels # <<>>
  /\ loadCurrentPower = <<0, 0>>
  /\ \A l \in Range(loads[1].levels) : l > 0 /\ l <= availablePower
                                        /\ 2 * l > availablePower

\* C5: the loads are served in descending priority score, equal scores in
\* input order; of two competing loads the one ranked first receives its level
\* and the other 0; priorities 80 and 30, levels {1000, 2000}, observed 0 and
\* budget 2500 give 2000 and 0.
C5_PriorityOrder ==
  /\ pc # "call" =>
       /\ ServedInPriorityOrder
       /\ Range(eligible) = { id \in InputIds : loads[id].eligible }
       /\ Len(eligible) = Cardinality(Range(eligible))
  /\ (pc = "done" /\ TwoCompeting) =>
       /\ allocations[eligible[1]] > 0
       /\ allocations[eligible[2]] = 0
       /\ (loads[1].score >= loads[2].score) => eligible[1] = 1
  /\ (/\ pc = "done"
      /\ loads = << LoadState(TRUE, <<1000, 2000>>, 80),
                    LoadState(TRUE, <<1000, 2000>>, 30) >>
      /\ loadCurrentPower = <<0, 0>>
      /\ availablePower = 2500)
     => allocations = <<2000, 0>>

\* The lower-scored load comes first in the input and is served last: the
\* budget goes to the second input load.
C5_Witness ==
  /\ pc = "done"
  /\ loads = << LoadState(TRUE, <<1000, 2000>>, 30),
                LoadState(TRUE, <<1000, 2000>>, 80) >>
  /\ loadCurrentPower = <<0, 0>>
  /\ availablePower = 2500
  /\ eligible = <<2, 1>>
  /\ allocations = <<0, 2000>>

\* C6 as stated: the returned allocation has exactly one entry for every load
\* id of the input, ineligible loads and loads without levels included, and no
\* other key.
C6_OneEntryPerLoad ==
  pc = "done" => DOMAIN allocations = InputIds

\* C7: every value assigned to a load is 0 or one of that load's own levels,
\* so it never exceeds the load's largest level.
C7_OnlyDeclaredLevels ==
  \A id \in DOMAIN allocations :
    /\ id \in InputIds
    /\ \/ allocations[id] = 0
       \/ /\ allocations[id] \in Range(loads[id].levels)
          /\ allocations[id] <= MaxOf(Range(loads[id].levels))

\* A load is given one of its levels that is not its largest one.
C7_Witness ==
  /\ pc = "done"
  /\ \E id \in DOMAIN allocations :
       /\ allocations[id] > 0
       /\ allocations[id] < MaxOf(Range(loads[id].levels))

\* C8 as stated: a load with an empty level set is always allocated 0, and
\* serving it leaves the remaining budget unchanged.
C8_EmptyLevelsGetZero ==
  [][ /\ pc' = "done" =>
           \A id \in InputIds :
             loads[id].levels = <<>> => EntryIs(allocations', id, 0)
      /\ (pc = "loop" /\ idx <= Len(eligible) /\ idx' = idx + 1
            /\ loads[eligible[idx]].levels = <<>>)
         => remainingPower' = remainingPower
    ]_vars

\* C9: two calls with equal loads, equal observed power and equal budget
\* return equal allocations, whatever calls happened in between.
C9_Deterministic ==
  (/\ pc = "done"
   /\ saved # None
   /\ saved[1].loads = loads
   /\ saved[1].power = loadCurrentPower
   /\ saved[1].available = availablePower)
  => saved[1].result = allocations

\* A kept call and a later call on the same two loads that allocate power.
C9_Witness ==
  /\ pc = "done"
  /\ saved # None
  /\ saved[1].loads = loads
  /\ saved[1].power = loadCurrentPower
  /\ saved[1].available = availablePower
  /\ Len(loads) = 2
  /\ allocations = <<2000, 0>>
  /\ remainingPower = 500

\* ---------------------------------------------------- properties, Manager
\* Some load's observed power differs from its entry in the previous allocation.
Mismatch ==
  /\ powerAllocation # None
  /\ loadsActualPower # None
  /\ \E id \in DOMAIN powerAllocation[1] :
       powerAllocation[1][id] # loadsActualPower[id]

\* C1: a decision cycle that runs while some load's observed power differs
\* from its entry in the previous allocation computes and publishes nothing,
\* and the previous allocation stays as it is for as long as the mismatch lasts.
C1_GateBlocksWhileOutOfSync ==
  [][ /\ Mismatch' => (decision' = None /\ outcome' # "allocated")
      /\ (Mismatch /\ Mismatch') => powerAllocation' = powerAllocation
    ]_vars

\* The cycle of the claim: previous allocation 1500W, observed 1000W, skipped.
C1_Witness ==
  /\ outcome = "skipped"
  /\ powerAllocation # None
  /\ EntryIs(powerAllocation[1], 1, 1500)
  /\ loadsActualPower[1] = 1000
  /\ latestAvailablePower = Some(0 - 1000)

\* C10 as stated: the gate looks only at loads with an entry in the previous
\* allocation: a cycle with a null previous allocation, or one in which every
\* load that has an entry is in sync, is not skipped.
C10_GateIgnoresLoadsWithoutEntry ==
  (/\ outcome # "idle"
   /\ \/ powerAllocation = None
      \/ \A id \in DOMAIN powerAllocation[1] :
           powerAllocation[1][id] = loadsActualPower[id])
  => outcome = "allocated"

\* -------------------------------------------------- properties, smoothing
\* Every value pushed so far equals c.
ConstantStream(c) ==
  /\ series # <<>>
  /\ \A i \in DOMAIN series : series[i] = c

OneOutlier(values, c) ==
  /\ Len(values) >= 2
  /\ \E i \in DOMAIN values :
       /\ values[i] # c
       /\ \A j \in DOMAIN values \ {i} : values[j] = c

\* C20 as stated: for every series in which all values equal c except one
\* single outlier, the median-based smoothed value equals c while the
\* mean-based smoothed value differs from c.
C20_MedianIgnoresOutlier ==
  \A c \in ValueChoices :
    OneOutlier(WindowValues(window), c) =>
      /\ RatioIs(smoothed[1].median, c)
      /\ ~RatioIs(smoothed[1].mean, c)

\* C20 amended: for every series of at least three values in which all values
\* equal c except one single outlier, the median-based smoothed value equals c
\* while the mean-based smoothed value differs from c.
C20_MedianIgnoresOutlierOfThree ==
  \A c \in ValueChoices :
    (OneOutlier(WindowValues(window), c) /\ Len(window) >= 3) =>
      /\ RatioIs(smoothed[1].median, c)
      /\ ~RatioIs(smoothed[1].mean, c)

\* The outlier 2000 between two values 50: median 50, mean 700.
C20_Witness ==
  /\ WindowValues(window) = <<50, 2000, 50>>
  /\ smoothed[1].median = Ratio(50, 1)
  /\ smoothed[1].mean = Ratio(2100, 3)

\* ------------------------------------- properties, allocator input invariant
\* Some load of the input declares a negative level.
HasNegativeLevel ==
  \E id \in InputIds : \E l \in Range(loads[id].levels) : l < 0

\* C17 as stated: allocatePower raises an error instead of returning an
\* allocation when its input violates an allocator invariant: a call whose
\* input holds a negative level never returns.
C17_RaisesOnInvalidInput ==
  HasNegativeLevel => pc # "done"

\* --------------------------------------------- properties, energy system
\* The step of reconcile$ ran in this transition: the armed debounce elapsed,
\* and it is armed again only by the step's own update of expectedState$.
ReconcileRan ==
  /\ running /\ running'
  /\ debouncing
  /\ (~debouncing' \/ expectedState' # expectedState)

Abs(x) ==
  IF x < 0 THEN 0 - x ELSE x

\* amps is an integer nearest to targetPower / WattsPerAmp.
NearestAmps(amps, targetPower) ==
  2 * Abs(amps * WattsPerAmp - targetPower) <= WattsPerAmp

IssuedBy(cmd, kind, call) ==
  /\ cmd # None
  /\ cmd[1].kind = kind
  /\ cmd[1].call = call
  /\ cmd[1].attempts = 1
  /\ cmd[1].result = "pending"

\* C11 as stated: a reconciliation step with target # observed power issues
\* a stop when the target is 0 and observed power > 0, a start (observed 0) or
\* an adjust (observed > 0) when the target is > 0, with amps equal to target
\* watts / watts-per-amp, and no other actuator command.
C11_CommandWithExactAmps ==
  [][ (ReconcileRan /\ Target[1] # powerState[1].power) =>
        /\ (Target[1] = 0 /\ powerState[1].power > 0)
             => IssuedBy(command', "stop", "charge_stop")
        /\ (Target[1] > 0 /\ powerState[1].power = 0)
             => /\ IssuedBy(command', "start", "set_charging_amps")
                /\ command'[1].amps * WattsPerAmp = Target[1]
        /\ (Target[1] > 0 /\ powerState[1].power > 0)
             => /\ IssuedBy(command', "adjust", "set_charging_amps")
                /\ command'[1].amps * WattsPerAmp = Target[1]
    ]_vars

\* C11 amended: the same, with amps equal to target watts / watts-per-amp
\* rounded to the nearest integer.
C11_CommandWithRoundedAmps ==
  [][ (ReconcileRan /\ Target[1] # powerState[1].power) =>
        /\ (Target[1] = 0 /\ powerState[1].power > 0)
             => IssuedBy(command', "stop", "charge_stop")
        /\ (Target[1] > 0 /\ powerState[1].power = 0)
             => /\ IssuedBy(command', "start", "set_charging_amps")
                /\ NearestAmps(command'[1].amps, Target[1])
        /\ (Target[1] > 0 /\ powerState[1].power > 0)
             => /\ IssuedBy(command', "adjust", "set_charging_amps")
                /\ NearestAmps(command'[1].amps, Target[1])
    ]_vars

\* A start towards 1000W went through: 5 amps, then charge_start.
C11_Witness ==
  /\ Target = Some(1000)
  /\ command = Some([kind |-> "start", target |-> 1000, amps |-> 5,
                     call |-> "charge_start",
                     attempts |-> 2, result |-> "ok"])

\* C12: a reconciliation step that runs with target power equal to observed
\* power issues no actuator command and leaves expectedState$ unchanged.
C12_EqualDoesNothing ==
  [][ (ReconcileRan /\ Target[1] = powerState[1].power) =>
        /\ command' = None
        /\ expectedState' = expectedState
    ]_vars

\* The step has run on target 2000W and observed 2000W (the debounce is not
\* armed and every source has emitted) while expectedState$ still holds its
\* initial value.
C12_Witness ==
  /\ running
  /\ ~debouncing
  /\ Target = Some(2000)
  /\ powerState # None
  /\ powerState[1].power = 2000
  /\ expectedState = ExpectedInitial
  /\ command = None

\* C13 as stated: when the actuator fails, the reconciliation has called it
\* 3 times, expectedState$ is back at the safe value (power 0, not pending)
\* and exactly one failure notification has been sent.
C13_RetriesThenResets ==
  (command # None /\ command[1].result = "failed") =>
    /\ command[1].attempts = 3
    /\ expectedState.power = 0
    /\ ~expectedState.hasPendingCommand
    /\ notifications = 1

\* The domain rules forbid drawing power.
Forbidden(t) ==
  \/ ~t.pluggedIn
  \/ t.battery >= t.limit

\* C14 as stated: whenever the load's domain rules forbid drawing power its
\* declared state carries an empty level set, and every allocation the Manager
\* computes from that state assigns the load 0.
C14_ForbiddenLoadGetsZero ==
  (telemetry # None /\ Forbidden(telemetry[1])) =>
    /\ loadStates[TeslaId].levels = <<>>
    /\ outcome = "allocated" => EntryIs(decision[1], TeslaId, 0)

\* C15 as stated: a failed read of the premises meter or of the load's sensor
\* does not stop polling: while the loop runs the meter's polling stream is
\* active, and after a failed sensor read the load's streams are alive.
C15_PollingSurvivesFailedRead ==
  /\ running => meterAlive
  /\ sensorFailed => ~crashed

\* An actuator command or a sensor read of the charging load has failed.
LoadFailed ==
  \/ sensorFailed
  \/ (command # None /\ command[1].result = "failed")

C18_RunsOnlyWhileEnabled ==
  [][ /\ running' <=> toggle' = "on"
      /\ (toggle # "on" /\ toggle' = "on") =>
           /\ powerAllocation' = None
           /\ command' = None
           /\ expectedState' = ExpectedInitial
      /\ (toggle' # "on" \/ toggle # "on") =>
           /\ toggle' = "on" \/ powerAllocation' = powerAllocation
           /\ toggle' = "on" \/ command' = command
           /\ toggle' = "on" \/ decision' = decision
    ]_vars

\* The switch was turned off after an allocation was published and while an
\* actuator call was in flight.
C18_Witness ==
  /\ toggle = "off"
  /\ ~running
  /\ powerAllocation # None
  /\ command # None
  /\ command[1].result = "pending"

\* --------------------------------------- properties, budget bookkeeping
\* C21 as stated: after a load is assigned its level, the remaining budget
\* seen by the next load equals remaining + observed power of the load just
\* served - the level it was assigned.
C21_RemainingCreditsObservedPower ==
  [][ (pc = "loop" /\ idx <= Len(eligible) /\ idx' = idx + 1) =>
        remainingPower' = remainingPower + loadCurrentPower[eligible[idx]]
                            - allocations'[eligible[idx]]
    ]_vars

\* ------------------------------------------ properties, commands in flight
\* C22 as stated: an actuator command that is in flight when a newer
\* reconciliation step supersedes it is allowed to complete: it remains the
\* command of the load, with its kind and target, until its call resolves, so
\* that its result can be applied to expectedState$.
C22_InFlightCommandCompletes ==
  [][ (running /\ running' /\ ~crashed' /\ InFlight(command)) =>
        /\ command' # None
        /\ command'[1].kind = command[1].kind
        /\ command'[1].target = command[1].target
    ]_vars

\* Nothing is left to happen in the load: no allocation waits to be fed back,
\* the debounce is not armed and no actuator call is in flight.
Settled ==
  /\ running /\ ~crashed
  /\ decision = None
  /\ ~debouncing
  /\ ~InFlight(command)
  /\ Target # None /\ powerState # None

C24_GateClosedWhileCallOutstanding ==
  (running /\ ~crashed /\ InFlight(command)) =>
    /\ decision = None
    /\ outcome # "allocated"
    /\ LoadsNotInSync(loadStates, loadsActualPower, powerAllocation) # {}

\* The last command of the load failed and its target still differs from the
\* observed power.
FailedAndStillOff ==
  /\ running /\ ~crashed
  /\ decision = None
  /\ command # None
  /\ command[1].result = "failed"
  /\ Target = Some(command[1].target)
  /\ powerState[1].power # command[1].target

\* C25 as stated: after a command for target T failed, expectedState$ keeps
\* T, the failure has been sent to the notification service and, while the
\* target still differs from the observed power, a further reconciliation
\* step is due that issues the command again.
C25_FailureSurfacedAndRetried ==
  FailedAndStillOff =>
    /\ expectedState.power = command[1].target
    /\ notifications > 0
    /\ debouncing

\* C26: once the command issued for target T has completed successfully,
\* expectedState$ holds power T, isActive = (T > 0) and no pending command.
C26_ExpectedAfterSuccess ==
  (command # None /\ command[1].result = "ok") =>
    expectedState = [isActive |-> command[1].target > 0,
                     power |-> command[1].target,
                     hasPendingCommand |-> FALSE]

\* An adjust from 1000W to 2000W completed.
C26_Witness ==
  /\ running
  /\ command # None
  /\ command[1].kind = "adjust"
  /\ command[1].target = 2000
  /\ command[1].result = "ok"
  /\ expectedState = [isActive |-> TRUE, power |-> 2000,
                      hasPendingCommand |-> FALSE]

\* ------------------------------------------- properties, sensor selection
\* bleState$ is polling: its switchMap is on the branch that reads the sensor.
BlePolling ==
  running /\ ~crashed /\ charging = Some(TRUE)

\* C27 as stated: the load polls the BLE sensor exactly while the isActive
\* flag of its own expectedState$ is true.
C27_PollsExactlyWhileExpectedActive ==
  (running /\ ~crashed) => (BlePolling <=> expectedState.isActive)

\* The retries the claim gives a failed poll.
RetryCount == 3

\* C28 as stated: a poll tick whose read of the BLE sensor failed has read
\* again, up to RetryCount more times, before it gave up.
C28_FailedPollIsRetried ==
  sensorFailed => (pollCalls >= 2 /\ pollCalls <= 1 + RetryCount)

\* -------------------------------------------------- properties, debounce
\* A value entered the debounce of reconcile$ in this transition.
InputChanged ==
  /\ running /\ running'
  /\ \/ Target' # Target
     \/ powerState' # powerState
     \/ expectedState' # expectedState

\* A new command was issued in this transition.
CommandIssued ==
  /\ running /\ running'
  /\ command' # command
  /\ InFlight(command')
  /\ command'[1].attempts = 1

\* C29: the reconciliation step runs only when no input has changed for the
\* whole debounce period, every change of an input restarts the wait, and a
\* command is issued only by such a step, from the latest target, observed
\* power and expected state.
C29_ActsOnlyAfterQuiescence ==
  [][ /\ ReconcileRan =>
           /\ elapsed = DebounceMs
           /\ command' = ReconcileCommand(Target[1], powerState[1].power)
           /\ expectedState' = ExpectedAfter(Target[1], powerState[1].power,
                                             expectedState)
      /\ InputChanged => elapsed' = 0
      /\ CommandIssued => (ReconcileRan /\ elapsed = DebounceMs)
    ]_vars

\* The step has just acted on the latest values: target 2000W, observed 1000W.
C29_Witness ==
  /\ running
  /\ ~debouncing /\ elapsed = 0
  /\ Target = Some(2000)
  /\ powerState = Some([isActive |-> TRUE, power |-> 1000])
  /\ InFlight(command)
  /\ command[1].kind = "adjust" /\ command[1].target = 2000
  /\ command[1].attempts = 1
  /\ expectedState.power = 2000

\* ------------------------------------------ properties, published snapshot
\* allocatePower applied to the latest declared states, observed powers and
\* budget.
SnapshotAllocation ==
  Some(allocatePower(loadStates, loadsActualPower, latestAvailablePower[1]))

\* C30: an allocation emitted by the decision cycle is allocatePower of the
\* declared states, observed powers and budget that are the latest ones, and
\* they still are when it is fed back; the allocation the loads see changes
\* only to such a map, as a whole.
C30_PublishedFromOneSnapshot ==
  [][ /\ decision # None => decision = SnapshotAllocation
      /\ powerAllocation' # powerAllocation =>
           /\ decision # None
           /\ powerAllocation' = decision
    ]_vars

\* A published allocation for two loads that is allocatePower of the latest
\* snapshot; the first load was given 1500W.
C30_Witness ==
  /\ decision = None
  /\ numLoads = 2
  /\ powerAllocation # None
  /\ loadStates # None /\ loadsActualPower # None
  /\ latestAvailablePower # None
  /\ powerAllocation = SnapshotAllocation
  /\ DOMAIN powerAllocation[1] = {1, 2}
  /\ powerAllocation[1][1] = 1500

\* ------------------------------------- properties, order of the allocation
\* The eligible loads of a call in the order in which the loop serves them.
Ranked(ls) ==
  SortByPriority(EligibleEntries(ls), ls)

\* The first k loads served by the kept call and by the current call have the
\* same declared state and the same observed power.
SamePrefix(k) ==
  /\ k <= Len(Ranked(saved[1].loads))
  /\ k <= Len(Ranked(loads))
  /\ \A j \in 1..k :
       /\ saved[1].loads[Ranked(saved[1].loads)[j]] = loads[Ranked(loads)[j]]
       /\ saved[1].power[Ranked(saved[1].loads)[j]]
            = loadCurrentPower[Ranked(loads)[j]]

\* C31: two calls with the same budget whose first k served loads agree give
\* those k loads the same allocations, whatever the loads served after them
\* declare or draw and whether or not they exist.
C31_HigherPriorityUnaffected ==
  (pc = "done" /\ saved # None /\ saved[1].available = availablePower) =>
    \A k \in 1..MaxLoads :
      SamePrefix(k) =>
        \A j \in 1..k :
          saved[1].result[Ranked(saved[1].loads)[j]]
            = allocations[Ranked(loads)[j]]

\* The kept call served one load alone, the current call serves the same load
\* first and a second load, with other levels and drawing 1000W, after it;
\* both give the first load 1000W.
C31_Witness ==
  /\ pc = "done"
  /\ saved # None
  /\ saved[1].available = availablePower
  /\ Len(saved[1].loads) = 1
  /\ Len(loads) = 2
  /\ SamePrefix(1)
  /\ loadCurrentPower[Ranked(loads)[2]] = 1000
  /\ loads[Ranked(loads)[2]].levels # loads[Ranked(loads)[1]].levels
  /\ saved[1].result[1] = 1000
  /\ allocations[Ranked(loads)[1]] = 1000

\* ------------------------------------------- properties, confidence tags
\* C32 as stated: the value published by powerState$ carries "high" when it
\* came from the BLE sensor, "low" when it is the value made without any data
\* (the startWith of the MQTT stream), and "medium" when it came from MQTT
\* telemetry.
C32_ConfidenceFollowsSource ==
  published # None =>
    published[1].confidence =
      IF published[1].source = "ble" THEN "high"
      ELSE IF published[1].source = "startWith" THEN "low"
      ELSE "medium"

\* -------------------------------------------- properties, rolling window
\* Everything the source has emitted, with its arrival time.
Arrived ==
  [ i \in 1..Len(series) |-> [value |-> series[i], timestamp |-> arrivals[i]] ]

\* The arrived values that are at most windowSize old now.
InWindowNow ==
  SelectSeq(Arrived, LAMBDA item : /\ clock - windowSize <= item.timestamp
                                   /\ item.timestamp <= clock)

\* C33: at every emission the aggregate is computed over exactly the values
\* that arrived between now - windowSize and now, both ends included; the
\* value just received is among them.
C33_WindowIsLastWindowSize ==
  smoothed # None =>
    /\ window = InWindowNow
    /\ smoothed = Some(Aggregates(InWindowNow))
    /\ window[Len(window)] = Arrived[Len(Arrived)]

\* A value exactly windowSize old is still in the window, an older one has
\* been dropped.
C33_Witness ==
  /\ smoothed # None
  /\ windowSize = 3
  /\ Len(window) < Len(series)
  /\ window[1].timestamp = clock - windowSize
  /\ window[Len(window)].timestamp = clock
  /\ arrivals[1] < clock - windowSize

\* ------------------------------------------- properties, weighted mean
\* The number of (value, weight) pairs when the last values are paired with
\* the last weights.
PairCount(weights, values) ==
  Min(Len(values), Len(weights))

\* Sum of value * weight over those pairs.
PairedProducts(weights, values) ==
  LET k == PairCount(weights, values)
  IN SumOver(1..k, [ i \in 1..k |->
                       values[Len(values) - k + i] * weights[Len(weights) - k + i] ])

\* Sum of the weights of those pairs.
PairedWeights(weights, values) ==
  LET k == PairCount(weights, values)
  IN SumOver(1..k, [ i \in 1..k |-> weights[Len(weights) - k + i] ])

C35_OwnUpdateIssuesNothing ==
  [][ (ReconcileRan /\ selfArmed) => command' = command ]_vars

\* ------------------------------------------- properties, feedback loop
\* C36: feeding an allocation back makes the Manager compute at most one
\* further allocation, and that one equals the allocation just fed back;
\* feeding back an allocation equal to the previous one computes nothing, so
\* that the Manager is idle until one of its other inputs changes.
C36_FeedbackSettles ==
  /\ computed <= 2
  /\ computed = 2 => decision = powerAllocation
  /\ (decision # None /\ decision = powerAllocation) =>
       ~ENABLED (Feedback /\ decision' # None)

\* The further allocation has been computed: it equals the published one.
C36_Witness ==
  /\ decision # None
  /\ decision = powerAllocation
  /\ outcome = "allocated"
  /\ computed = 2
  /\ numLoads = 2
  /\ powerAllocation[1][1] = 1500

\* ------------------------------------------ properties, first allocation
\* C37: while powerAllocation$ still holds null the load has no target, its
\* reconciliation step has not run and is not due, and it has issued no
\* actuator command, whatever power the car draws.
C37_NoCommandBeforeFirstAllocation ==
  (running /\ powerAllocation = None) =>
    /\ Target = None
    /\ ~debouncing
    /\ command = None
    /\ expectedState = ExpectedInitial

\* No allocation yet, and the car is observed charging at 1000W.
C37_Witness ==
  /\ running
  /\ powerAllocation = None
  /\ loadStates # None
  /\ powerState = Some([isActive |-> TRUE, power |-> 1000])

\* ------------------------------------------ properties, expected state
\* C38: in every state expectedState$.isActive is true exactly when
\* expectedState$.power > 0, and a new value of expectedState$ is either the
\* initial one (power 0) or carries the power the current allocation gives
\* this load.
C38_ExpectedIsConsistent ==
  [][ /\ expectedState.isActive <=> (expectedState.power > 0)
      /\ expectedState'.isActive <=> (expectedState'.power > 0)
      /\ expectedState' # expectedState =>
           \/ expectedState' = ExpectedInitial
           \/ /\ Target # None
              /\ TeslaId \in DOMAIN powerAllocation[1]
              /\ expectedState'.power = powerAllocation[1][TeslaId]
    ]_vars

\* expectedState$ after a step towards an allocation of 2000W.
C38_Witness ==
  /\ running
  /\ powerAllocation # None
  /\ EntryIs(powerAllocation[1], TeslaId, 2000)
  /\ expectedState = [isActive |-> TRUE, power |-> 2000,
                      hasPendingCommand |-> FALSE]

\* ------------------------------------------ properties, start sequence
\* C39: a start begins with set_charging_amps; charge_start is called only
\* when the set_charging_amps of a start in flight has succeeded, and a start
\* whose set_charging_amps failed ends there.
C39_StartOnlyAfterAmpsSucceeded ==
  [][ /\ (CommandIssued /\ command'[1].kind = "start") =>
           command'[1].call = "set_charging_amps"
      /\ (/\ command' # None
          /\ command' # command
          /\ command'[1].call = "charge_start"
          /\ command'[1].attempts = 2
          /\ (command = None \/ command[1].call # "charge_start")) =>
           /\ InFlight(command)
           /\ command[1].kind = "start"
           /\ command[1].call = "set_charging_amps"
           /\ command'[1].result = "pending"
      /\ (/\ InFlight(command)
          /\ command[1].call = "set_charging_amps"
          /\ command' # None
          /\ command'[1].result = "failed") =>
           command'[1].call = "set_charging_amps"
    ]_vars

\* A start whose set_charging_amps failed: one call was made, no charge_start.
C39_Witness ==
  /\ running
  /\ command # None
  /\ command[1].kind = "start"
  /\ command[1].call = "set_charging_amps"
  /\ command[1].attempts = 1
  /\ command[1].result = "failed"
====
